---- MODULE Spec2Model ----
(***************************************************************************)
(* Model of src/dpas.py: the DPAS angle value object.                      *)
(*                                                                         *)
(* Numbers.  The program computes with Python floats (IEEE-754 binary64,   *)
(* round-to-nearest-even).  The model keeps that arithmetic and shrinks    *)
(* the format: a float is a binary floating-point number with Prec         *)
(* significant bits (binary64 has 53) whose smallest positive value        *)
(* (the subnormal quantum) is 2^-Frac.  A float is written as the integer  *)
(* number of quanta it holds, so 1.0 is 2^Frac and 360.0 is 360 * 2^Frac.  *)
(* Every operation is the exact real result rounded to the nearest float,  *)
(* ties to even, as the hardware does.  Infinities and NaN are outside     *)
(* the input sets.  A Python int passed as value takes, in the range of    *)
(* the inputs used here, the same values as the float equal to it.         *)
(***************************************************************************)
EXTENDS Integers, Naturals, Sequences, FiniteSets, TLC

\* Significant bits of the miniature float format.
Prec == 10

\* The quantum is 2^-Frac: 0.9 (in [1/2, 1)) is a normal number, and two
\* further binades lie below it before the subnormal range begins.
Frac == Prec + 2

Abs(n) == IF n < 0 THEN -n ELSE n

Sgn(n) == IF n < 0 THEN -1 ELSE IF n > 0 THEN 1 ELSE 0

\* Number of bits of n >= 0.
RECURSIVE BitLen(_)
BitLen(n) == IF n = 0 THEN 0 ELSE 1 + BitLen(n \div 2)

\* Number of trailing zero bits of n > 0.
RECURSIVE TrailingZeros(_)
TrailingZeros(n) == IF n % 2 = 1 THEN 0 ELSE 1 + TrailingZeros(n \div 2)

\* num/den (num >= 0, den > 0) rounded to the nearest integer, ties to even.
RoundInt(num, den) ==
    LET q == num \div den
        r == num % den
    IN  IF 2 * r > den \/ (2 * r = den /\ q % 2 = 1) THEN q + 1 ELSE q

\* num/den quanta (num >= 0, den > 0) rounded to the nearest float: to Prec
\* significant bits, and never finer than one quantum.
RoundRat(num, den) ==
    LET len == BitLen(num \div den)
        ulp == IF len > Prec THEN 2 ^ (len - Prec) ELSE 1
    IN  RoundInt(num, den * ulp) * ulp

\* Least t >= 0 with a * 2^t >= d * 2^Prec (a > 0): the quotient a * 2^t / d
\* then has more than Prec bits, so rounding it is rounding above the quantum.
RECURSIVE Shift(_, _)
Shift(a, d) == IF a >= d * 2 ^ Prec THEN 0 ELSE 1 + Shift(2 * a, d)

\* m * 2^e / d quanta (d > 0) rounded to the nearest float.  Scaling by a
\* power of two commutes with rounding above the quantum, which keeps the
\* intermediate integers small.
RoundExp(m, e, d) ==
    IF m = 0 THEN 0
    ELSE LET a == Abs(m)
             t == Shift(a, d)
         IN  Sgn(m) * (IF e < 0 THEN RoundRat(a, d * 2 ^ (-e))
                       ELSE IF e <= t THEN RoundRat(a * 2 ^ e, d)
                       ELSE RoundRat(a * 2 ^ t, d) * 2 ^ (e - t))

\* Odd part and binary exponent of a nonzero float: x = Mant(x) * 2^Expo(x).
Expo(x) == TrailingZeros(Abs(x))

Mant(x) == x \div 2 ^ Expo(x)

\* The integer k and the decimal literal a/b as floats.
I(k) == k * 2 ^ Frac

Lit(a, b) == RoundExp(a, Frac, b)

\* Float arithmetic: x + y, x * y, x / y, each correctly rounded.
FAdd(x, y) == RoundExp(x + y, 0, 1)

FMul(x, y) ==
    IF x = 0 \/ y = 0 THEN 0
    ELSE RoundExp(Mant(x) * Mant(y), Expo(x) + Expo(y) - Frac, 1)

FDiv(x, y) ==
    IF x = 0 THEN 0
    ELSE RoundExp(Sgn(y) * Mant(x), Expo(x) + Frac - Expo(y), Abs(Mant(y)))

\* C's fmod for y > 0: exact, with the sign of x.
fmod(x, y) == Sgn(x) * (Abs(x) % y)

\* Python's float % for y > 0 (float_rem): fmod, then the remainder is given
\* the sign of the divisor by one float addition; a zero remainder is +0.
PyModTrunc(x, y) == fmod(x, y)

PyMod(x, y) ==
    LET mod == fmod(x, y)
    IN  IF mod # 0
        THEN IF (y < 0) # (mod < 0) THEN FAdd(mod, y) ELSE mod
        ELSE 0

\* The float literals of the source and the factors of math.degrees and
\* math.radians (180.0 / pi and pi / 180.0, pi being the float nearest to
\* 3.14159...; 355/113 rounds to the same float at these precisions).
ThreeSixty == I(360)

Nine == I(9)

PointNine == Lit(9, 10)

Pi == Lit(355, 113)

radToDeg == FDiv(I(180), Pi)

degToRad == FDiv(Pi, I(180))

math_degrees(x) == FMul(x, radToDeg)

math_radians(x) == FMul(x, degToRad)

\* "{:.2f}": the exact binary value rounded to hundredths, ties to even,
\* written here as the number of hundredths.
Fmt2(x) == Sgn(x) * RoundInt(Abs(x) * 100, 2 ^ Frac)

LegalModes == {"degrees", "radians", "macro", "micro"}

InvalidModeMessage == "Invalid mode! Use: 'degrees', 'radians', 'macro', 'micro'"

ValueError(msg) == [type |-> "ValueError", args |-> <<msg>>]

\* The outcome of DPAS(value, mode): obj holds the constructed instance (its
\* attributes), or is empty when __init__ raised; exc holds what was raised.
Instance(deg) == [obj |-> {[_deg |-> deg]}, exc |-> {}]

Raise(e) == [obj |-> {}, exc |-> {e}]

InitStoresUnreduced(value, mode) ==
    IF mode = "degrees" THEN Instance(value)
    ELSE IF mode = "radians" THEN Instance(PyMod(math_degrees(value), ThreeSixty))
    ELSE IF mode = "macro" THEN Instance(PyMod(FMul(value, Nine), ThreeSixty))
    ELSE IF mode = "micro" THEN Instance(PyMod(FMul(value, PointNine), ThreeSixty))
    ELSE Raise(ValueError(InvalidModeMessage))

InitDefaultsToDegrees(value, mode) ==
    IF mode = "radians" THEN Instance(PyMod(math_degrees(value), ThreeSixty))
    ELSE IF mode = "macro" THEN Instance(PyMod(FMul(value, Nine), ThreeSixty))
    ELSE IF mode = "micro" THEN Instance(PyMod(FMul(value, PointNine), ThreeSixty))
    ELSE Instance(PyMod(value, ThreeSixty))

InitEchoesMode(value, mode) ==
    IF mode = "degrees" THEN Instance(PyMod(value, ThreeSixty))
    ELSE IF mode = "radians" THEN Instance(PyMod(math_degrees(value), ThreeSixty))
    ELSE IF mode = "macro" THEN Instance(PyMod(FMul(value, Nine), ThreeSixty))
    ELSE IF mode = "micro" THEN Instance(PyMod(FMul(value, PointNine), ThreeSixty))
    ELSE Raise(ValueError(mode))

__init__(value, mode) ==
    IF mode = "degrees" THEN Instance(PyMod(value, ThreeSixty))
    ELSE IF mode = "radians" THEN Instance(PyMod(math_degrees(value), ThreeSixty))
    ELSE IF mode = "macro" THEN Instance(PyMod(FMul(value, Nine), ThreeSixty))
    ELSE IF mode = "micro" THEN Instance(PyMod(FMul(value, PointNine), ThreeSixty))
    ELSE Raise(ValueError(InvalidModeMessage))

\* The properties, as functions of the instance.
degrees(self) == self._deg

radians(self) == math_radians(self._deg)

macroTimesNine(self) == FMul(self._deg, Nine)

macro(self) == FDiv(self._deg, Nine)

microByNine(self) == FDiv(self._deg, Nine)

micro(self) == FDiv(self._deg, PointNine)

domainRightInclusive(self) ==
    LET m == macro(self)
    IN  IF 0 <= m /\ m <= I(10) THEN 1
        ELSE IF I(10) <= m /\ m <= I(20) THEN 2
        ELSE IF I(20) <= m /\ m <= I(30) THEN 3
        ELSE 4

domain(self) ==
    LET m == macro(self)
    IN  IF 0 <= m /\ m < I(10) THEN 1
        ELSE IF I(10) <= m /\ m < I(20) THEN 2
        ELSE IF I(20) <= m /\ m < I(30) THEN 3
        ELSE 4

repr(self) == <<Fmt2(degrees(self)), Fmt2(macro(self)), domain(self)>>

(***************************************************************************)
(* State.  The program binds names to angles (angle1, angle2, ...); the     *)
(* model has two such names.  angles[i] records the call DPAS(value, mode)  *)
(* made for name i and its outcome; last holds the most recent property     *)
(* read: on which angle, which property, and the value returned.            *)
(***************************************************************************)
VARIABLES angles, last

vars == <<angles, last>>

Names == {1, 2}

\* The largest float below the float x > 1.
Pred(x) == x - (IF BitLen(x - 1) > Prec THEN 2 ^ (BitLen(x - 1) - Prec) ELSE 1)

\* Input values: the spec's scenarios, quadrant boundaries, values a whole
\* number of turns apart, negative values, the smallest floats on either
\* side of zero, the floats just below a boundary, and a negative value
\* whose remainder plus 360 has to be rounded.
Values ==
    {I(0), I(90), I(180), I(195), I(270),
     I(360), I(450), I(-90), I(-270), I(-360),
     Lit(51, 2), Lit(771, 2), Lit(-669, 2),
     1, -1, Lit(-3, 4),
     Pred(I(90)), Pred(I(360))}

ModeInputs == LegalModes \cup {"foo", "Degrees"}

Unbound == [called |-> FALSE, value |-> 0, mode |-> "", obj |-> {}, exc |-> {}]

Constructed(i) == angles[i].obj # {}

Failed(i) == angles[i].exc # {}

Self(i) == CHOOSE o \in angles[i].obj : TRUE

\* What a caller holding angle j can pass on: a view with its own mode.
Views(j) ==
    IF Constructed(j)
    THEN {<<degrees(Self(j)), "degrees">>, <<macro(Self(j)), "macro">>,
          <<micro(Self(j)), "micro">>}
    ELSE {}

Init ==
    /\ angles = [i \in Names |-> Unbound]
    /\ last = {}

\* name_i = DPAS(value, mode)
Construct(i, value, mode) ==
    /\ ~angles[i].called
    /\ LET r == __init__(value, mode)
       IN  angles' = [angles EXCEPT ![i] =
                [called |-> TRUE, value |-> value, mode |-> mode,
                 obj |-> r.obj, exc |-> r.exc]]
    /\ UNCHANGED last

Returned(i, acc, ret) == last' = {[obj |-> i, acc |-> acc, ret |-> ret]}

ReadDegrees(i) ==
    /\ Constructed(i)
    /\ Returned(i, "degrees", <<degrees(Self(i))>>)
    /\ UNCHANGED angles

ReadRadians(i) ==
    /\ Constructed(i)
    /\ Returned(i, "radians", <<radians(Self(i))>>)
    /\ UNCHANGED angles

ReadMacroCaching(i) ==
    /\ Constructed(i)
    /\ Returned(i, "macro", <<macro(Self(i))>>)
    /\ angles' = [angles EXCEPT ![i].obj = {[_deg |-> macro(Self(i))]}]

ReadMacro(i) ==
    /\ Constructed(i)
    /\ Returned(i, "macro", <<macro(Self(i))>>)
    /\ UNCHANGED angles

ReadMicro(i) ==
    /\ Constructed(i)
    /\ Returned(i, "micro", <<micro(Self(i))>>)
    /\ UNCHANGED angles

ReadDomain(i) ==
    /\ Constructed(i)
    /\ Returned(i, "domain", <<domain(Self(i))>>)
    /\ UNCHANGED angles

ReadRepr(i) ==
    /\ Constructed(i)
    /\ Returned(i, "repr", repr(Self(i)))
    /\ UNCHANGED angles

ConstructInput ==
    \E i \in Names, value \in Values, mode \in ModeInputs :
        Construct(i, value, mode)

ConstructFromView ==
    \E i \in Names, j \in Names : \E vm \in Views(j) :
        Construct(i, vm[1], vm[2])

Read ==
    \E i \in Names :
        \/ ReadDegrees(i)
        \/ ReadRadians(i)
        \/ ReadMacro(i)
        \/ ReadMicro(i)
        \/ ReadDomain(i)
        \/ ReadRepr(i)

Next == ConstructInput \/ ConstructFromView \/ Read

Spec == Init /\ [][Next]_vars

(***************************************************************************)
(* Properties.                                                             *)
(***************************************************************************)

\* The read most recently made, if it was of property acc on angle i.
LastRead(i, acc) == {r \in last : r.obj = i /\ r.acc = acc}

\* The conversion of the input that each mode reduces modulo 360.
Converted(i) ==
    IF angles[i].mode = "degrees" THEN angles[i].value
    ELSE IF angles[i].mode = "macro" THEN FMul(angles[i].value, Nine)
    ELSE FMul(angles[i].value, PointNine)

\* The mathematical (floor) modulo of x by 360, in [0, 360), as a float.
MathMod360(x) == RoundExp(x % ThreeSixty, 0, 1)

\* C1: every constructed angle, whatever the sign of the input and whichever
\* of the four legal modes, stores degrees d with 0 <= d < 360.
C1_StoredInRange ==
    \A i \in Names :
        Constructed(i) => 0 <= Self(i)._deg /\ Self(i)._deg < ThreeSixty

\* C2: the degrees accessor equals the mathematical non-negative modulo 360
\* (correctly rounded to a float) of the mode's conversion of the input, for
\* modes degrees, macro and micro and inputs of either sign; -90 degrees
\* gives 270 and domain 4, 25.5 macro gives 229.5 and domain 3.
C2_DegreesIsModulo ==
    \A i \in Names :
        Constructed(i) /\ angles[i].mode \in {"degrees", "macro", "micro"} =>
            /\ degrees(Self(i)) = MathMod360(Converted(i))
            /\ \A r \in LastRead(i, "degrees") :
                   r.ret = <<MathMod360(Converted(i))>>
            /\ angles[i].value = I(-90) /\ angles[i].mode = "degrees" =>
                   degrees(Self(i)) = I(270) /\ domain(Self(i)) = 4
            /\ angles[i].value = Lit(51, 2) /\ angles[i].mode = "macro" =>
                   degrees(Self(i)) = Lit(459, 2) /\ domain(Self(i)) = 3

C2_Witness ==
    \E i \in Names :
        /\ angles[i].value = I(-90) /\ angles[i].mode = "degrees"
        /\ LastRead(i, "degrees") = {[obj |-> i, acc |-> "degrees", ret |-> <<I(270)>>]}

\* C3: the domain is 1 iff 0 <= m < 10, 2 iff 10 <= m < 20, 3 iff
\* 20 <= m < 30 and 4 otherwise, m being the macro value; m of exactly 10,
\* 20, 30 gives 2, 3, 4; the domain is always one of 1, 2, 3, 4.
C3_DomainBoundaries ==
    \A i \in Names :
        Constructed(i) =>
            LET m == macro(Self(i))
                d == domain(Self(i))
            IN  /\ d \in {1, 2, 3, 4}
                /\ d = 1 <=> (0 <= m /\ m < I(10))
                /\ d = 2 <=> (I(10) <= m /\ m < I(20))
                /\ d = 3 <=> (I(20) <= m /\ m < I(30))
                /\ d = 4 <=> ~(0 <= m /\ m < I(30))
                /\ m = I(10) => d = 2
                /\ m = I(20) => d = 3
                /\ m = I(30) => d = 4
                /\ \A r \in LastRead(i, "domain") : r.ret = <<d>>

C3_Witness ==
    \E i \in Names :
        /\ Constructed(i)
        /\ macro(Self(i)) = I(10)
        /\ LastRead(i, "domain") = {[obj |-> i, acc |-> "domain", ret |-> <<2>>]}

\* C4 as stated: an angle built from 90 in mode degrees has macro 10,
\* micro 100 and domain 1.
C4_Original ==
    \A i \in Names :
        Constructed(i) /\ angles[i].value = I(90) /\ angles[i].mode = "degrees" =>
            /\ macro(Self(i)) = I(10)
            /\ micro(Self(i)) = I(100)
            /\ domain(Self(i)) = 1

\* C4 amended: an angle built from 90 in mode degrees has macro 10,
\* micro 100 and domain 2 (macro 10 is the left-inclusive start of domain 2).
C4_NinetyDegrees ==
    \A i \in Names :
        Constructed(i) /\ angles[i].value = I(90) /\ angles[i].mode = "degrees" =>
            /\ macro(Self(i)) = I(10)
            /\ micro(Self(i)) = I(100)
            /\ domain(Self(i)) = 2
            /\ \A r \in LastRead(i, "macro") : r.ret = <<I(10)>>
            /\ \A r \in LastRead(i, "micro") : r.ret = <<I(100)>>
            /\ \A r \in LastRead(i, "domain") : r.ret = <<2>>

C4_Witness ==
    \E i \in Names :
        /\ Constructed(i) /\ angles[i].value = I(90) /\ angles[i].mode = "degrees"
        /\ LastRead(i, "micro") = {[obj |-> i, acc |-> "micro", ret |-> <<I(100)>>]}

\* C5: construction with a mode other than the four legal ones raises the
\* invalid-mode error for every input value, sets no stored degrees and
\* produces no angle; construction with a legal mode never raises it.
C5_InvalidModeRaises ==
    \A i \in Names :
        angles[i].called =>
            /\ angles[i].mode \notin LegalModes =>
                   /\ angles[i].obj = {}
                   /\ angles[i].exc # {}
                   /\ \A e \in angles[i].exc : e.type = "ValueError"
            /\ angles[i].mode \in LegalModes =>
                   /\ angles[i].exc = {}
                   /\ \E o \in angles[i].obj : DOMAIN o = {"_deg"}

C5_Witness ==
    \E i, j \in Names :
        /\ angles[i].called /\ angles[i].mode = "foo" /\ angles[i].value = I(-90)
        /\ Failed(i) /\ ~Constructed(i)
        /\ angles[j].mode = "radians" /\ Constructed(j) /\ ~Failed(j)

\* C6 as stated: the error carries the offending mode, so failures caused by
\* two different invalid modes differ in content.
C6_Original ==
    \A i, j \in Names :
        Failed(i) /\ Failed(j) /\ angles[i].mode # angles[j].mode =>
            angles[i].exc # angles[j].exc

\* C6 amended: the error is a ValueError whose only content is one fixed
\* message listing the four legal modes; it does not hold the offending
\* mode, and failures caused by different invalid modes have equal content.
C6_FixedMessage ==
    \A i, j \in Names :
        Failed(i) =>
            /\ angles[i].exc = {ValueError(InvalidModeMessage)}
            /\ \A e \in angles[i].exc : \A k \in DOMAIN e.args :
                   e.args[k] # angles[i].mode
            /\ Failed(j) => angles[i].exc = angles[j].exc

C6_Witness ==
    /\ Failed(1) /\ Failed(2)
    /\ angles[1].mode = "foo" /\ angles[2].mode = "Degrees"
    /\ angles[1].exc = angles[2].exc

\* C7: two angles built in mode degrees from values a whole number of turns
\* apart (d and d + 360*k, k of either sign) store identical degrees and
\* read identical macro, micro and domain.
C7_TurnsApart ==
    \A i, j \in Names :
        /\ Constructed(i) /\ Constructed(j)
        /\ angles[i].mode = "degrees" /\ angles[j].mode = "degrees"
        /\ (angles[i].value - angles[j].value) % ThreeSixty = 0
        => /\ Self(i)._deg = Self(j)._deg
           /\ macro(Self(i)) = macro(Self(j))
           /\ micro(Self(i)) = micro(Self(j))
           /\ domain(Self(i)) = domain(Self(j))

C7_Witness ==
    /\ Constructed(1) /\ Constructed(2)
    /\ angles[1].mode = "degrees" /\ angles[2].mode = "degrees"
    /\ angles[1].value = Lit(771, 2) /\ angles[2].value = Lit(-669, 2)
    /\ Self(1)._deg = Lit(51, 2) /\ Self(2)._deg = Lit(51, 2)

\* C8 as stated: macro read on an angle built in mode degrees from d is d / 9.
C8_Original ==
    \A i \in Names :
        Constructed(i) /\ angles[i].mode = "degrees" =>
            macro(Self(i)) = FDiv(angles[i].value, Nine)

\* C8 amended: macro read on an angle built in mode degrees from d is
\* (d mod 360) / 9, which is d / 9 when 0 <= d < 360.
C8_MacroOfReduced ==
    \A i \in Names :
        Constructed(i) /\ angles[i].mode = "degrees" =>
            /\ macro(Self(i)) = FDiv(MathMod360(angles[i].value), Nine)
            /\ \A r \in LastRead(i, "macro") :
                   r.ret = <<FDiv(MathMod360(angles[i].value), Nine)>>
            /\ 0 <= angles[i].value /\ angles[i].value < ThreeSixty =>
                   macro(Self(i)) = FDiv(angles[i].value, Nine)

C8_Witness ==
    \E i \in Names :
        /\ Constructed(i) /\ angles[i].mode = "degrees" /\ angles[i].value = I(450)
        /\ LastRead(i, "macro") = {[obj |-> i, acc |-> "macro", ret |-> <<I(10)>>]}

\* What a read of property acc on instance self returns.
Reading(acc, self) ==
    IF acc = "degrees" THEN <<degrees(self)>>
    ELSE IF acc = "radians" THEN <<radians(self)>>
    ELSE IF acc = "macro" THEN <<macro(self)>>
    ELSE IF acc = "micro" THEN <<micro(self)>>
    ELSE IF acc = "domain" THEN <<domain(self)>>
    ELSE repr(self)

\* C9: no read (degrees, radians, macro, micro, domain, description) changes
\* a constructed angle, a read repeated on the same angle returns what the
\* read before it returned, and a new read would return it again.
C9_ReadsArePure ==
    /\ [][/\ \A i \in Names : Constructed(i) => angles'[i] = angles[i]
          /\ \A r \in last, s \in last' :
                 r.obj = s.obj /\ r.acc = s.acc => r.ret = s.ret]_vars
    /\ [](\A r \in last :
              Constructed(r.obj) /\ r.ret = Reading(r.acc, Self(r.obj)))

C9_Witness ==
    /\ Constructed(1) /\ Constructed(2)
    /\ angles[1].value = I(450) /\ angles[1].mode = "degrees"
    /\ Self(1)._deg = I(90)
    /\ last = {[obj |-> 1, acc |-> "repr", ret |-> <<9000, 1000, 2>>]}

\* C10: an angle rebuilt from another angle's macro in mode macro, micro in
\* mode micro or degrees in mode degrees has the same stored degrees and the
\* same domain; the macro and micro views lie in [0, 40) and [0, 400).
C10_RebuildIsIdentity ==
    \A i, j \in Names :
        Constructed(i) =>
            /\ 0 <= macro(Self(i)) /\ macro(Self(i)) < I(40)
            /\ 0 <= micro(Self(i)) /\ micro(Self(i)) < I(400)
            /\ Constructed(j) /\ <<angles[j].value, angles[j].mode>> \in Views(i) =>
                   /\ Self(j)._deg = Self(i)._deg
                   /\ domain(Self(j)) = domain(Self(i))

====
